---- MODULE Spec2Model ----
(***************************************************************************)
(* A model of CROHME.py: the stroke feature-extraction pipeline            *)
(*   get_coordinates_from_trace -> remove_consecutive_duplicate_points     *)
(*   -> smooth_points -> the five extractors -> extract_features ->        *)
(*   build_training_data.                                                  *)
(*                                                                         *)
(* Conventions.  A Python str is a sequence of one-character strings.  A   *)
(* point is a pair <<x, y>>.  A trace_dict {0: pts0, 1: pts1, ...} is the  *)
(* sequence <<pts0, pts1, ...>>: the keys are 0..n-1 in insertion order    *)
(* (CROHME.py:392-393), so key i is position i+1.  A call that may raise   *)
(* returns Ok(v) or Raise(e), e the name of the Python exception.          *)
(***************************************************************************)
EXTENDS Integers, Sequences, FiniteSets, TLC

VARIABLES
    trace,          \* str(trace.contents[0]) handed to get_coordinates_from_trace
    points,         \* what get_coordinates_from_trace returned
    trace_dict,     \* the StrokeSet a stage or an extractor is given
    stage,          \* the position reached in the code under study
    result,         \* what the stage or extractor returned (Ok / Raise)
    features,       \* extract_features: its locals num_points .. frequencies
    symbol_files,   \* build_training_data: the samples of the batch
    i,              \* build_training_data: the loop index
    df,             \* build_training_data: the rows stored so far
    exception       \* build_training_data: the exception that left it

vars == <<trace, points, trace_dict, stage, result, features,
          symbol_files, i, df, exception>>

(***************************************************************************)
(* Bounds of the model.                                                    *)
(***************************************************************************)
MaxLen == 6         \* characters in a raw trace text
MaxPoints == 4      \* points of a sample, over all its strokes
MaxStrokes == 2     \* strokes of a sample
MaxLong == 49       \* points of the longest stroke given to the smoother
MaxFiles == 3       \* samples in a batch

Coords == {0, 1}                   \* the coordinate values of the samples
Grid == Coords \X Coords           \* the points of the samples
Chars == {"1", "-", " ", "\n", ",", "a"}   \* the characters of a raw trace

Ok(v) == [err |-> "", val |-> v]
Raise(e) == [err |-> e, val |-> <<>>]
IsOk(r) == r.err = ""

None == "None"      \* Python's None; also a variable the specification leaves unused

(***************************************************************************)
(* Python built-ins used by get_coordinates_from_trace.                    *)
(***************************************************************************)
IsSpace(c) == c \in {" ", "\n"}
IsDigit(c) == c \in {"1"}

\* str.replace(old, '') for a one-character old
RECURSIVE str_remove(_, _)
str_remove(s, old) ==
    IF s = <<>> THEN <<>>
    ELSE IF Head(s) = old THEN str_remove(Tail(s), old)
    ELSE <<Head(s)>> \o str_remove(Tail(s), old)

\* str.split(sep): k separators give k+1 pieces, empty ones included
RECURSIVE str_split_sep(_, _)
str_split_sep(s, sep) ==
    IF \A k \in 1..Len(s) : s[k] # sep THEN <<s>>
    ELSE LET k == CHOOSE k \in 1..Len(s) :
                      s[k] = sep /\ \A j \in 1..(k - 1) : s[j] # sep
         IN  <<SubSeq(s, 1, k - 1)>> \o str_split_sep(SubSeq(s, k + 1, Len(s)), sep)

\* the length of the longest prefix of s without whitespace
RECURSIVE word_len(_)
word_len(s) ==
    IF s = <<>> \/ IsSpace(Head(s)) THEN 0 ELSE 1 + word_len(Tail(s))

\* str.split(): the maximal runs of non-whitespace characters
RECURSIVE str_split(_)
str_split(s) ==
    IF s = <<>> THEN <<>>
    ELSE IF IsSpace(Head(s)) THEN str_split(Tail(s))
    ELSE <<SubSeq(s, 1, word_len(s))>> \o str_split(SubSeq(s, word_len(s) + 1, Len(s)))

\* s[:n]
prefix(s, n) == SubSeq(s, 1, IF Len(s) < n THEN Len(s) ELSE n)

\* the value of a non-empty run of decimal digits
RECURSIVE digits_value(_)
digits_value(s) ==
    IF s = <<>> THEN 0
    ELSE 10 * digits_value(SubSeq(s, 1, Len(s) - 1)) + 1 \* the digit "1"

AllDigits(s) == s # <<>> /\ \A k \in 1..Len(s) : IsDigit(s[k])

\* int(s): an optional sign and decimal digits, else ValueError
int(s) ==
    IF AllDigits(s) THEN Ok(digits_value(s))
    ELSE IF s # <<>> /\ Head(s) = "-" /\ AllDigits(Tail(s))
         THEN Ok(0 - digits_value(Tail(s)))
    ELSE Raise("ValueError")

(***************************************************************************)
(* get_coordinates_from_trace                                              *)
(***************************************************************************)
\* the body of the try block for one token: Ok(<<x, y>>) or the ValueError
\* that the except clause swallows
coor_point(coor) ==
    LET fields == prefix(str_split(coor), 2)           \* coor.split()[:2]
    IN  IF Len(fields) # 2 THEN Raise("ValueError")       \* x, y = ... cannot unpack
        ELSE IF ~IsOk(int(fields[1])) \/ ~IsOk(int(fields[2])) THEN Raise("ValueError")
        ELSE Ok(<<int(fields[1]).val, 0 - int(fields[2]).val>>)

\* the for loop over the tokens: a token that raises is skipped
RECURSIVE coors_points(_)
coors_points(coors) ==
    IF coors = <<>> THEN <<>>
    ELSE LET p == coor_point(Head(coors))
         IN  (IF IsOk(p) THEN <<p.val>> ELSE <<>>) \o coors_points(Tail(coors))

get_coordinates_from_trace(trace_as_string) ==
    coors_points(str_split_sep(str_remove(trace_as_string, "\n"), ","))

(***************************************************************************)
(* Specification of the parser: any raw text of at most MaxLen characters. *)
(***************************************************************************)
Texts == UNION {[1..n -> Chars] : n \in 0..MaxLen}

InitParse ==
    /\ trace \in Texts
    /\ points = None
    /\ stage = "trace"
    /\ trace_dict = None /\ result = None
    /\ features = None
    /\ symbol_files = None /\ i = None /\ df = None /\ exception = None

Parse ==
    /\ stage = "trace"
    /\ points' = get_coordinates_from_trace(trace)
    /\ stage' = "points"
    /\ UNCHANGED <<trace, trace_dict, result, features, symbol_files, i, df, exception>>

NextParse == Parse

SpecParse == InitParse /\ [][NextParse]_vars

(***************************************************************************)
(* remove_consecutive_duplicate_points                                     *)
(***************************************************************************)
\* the iterations lo..hi of "for i in range(len(points)-2)", in order:
\* points[i+1] is kept when it differs from points[i] (i is Python's index)
RECURSIVE keep_between(_, _, _)
keep_between(pts, lo, hi) ==
    IF lo > hi THEN <<>>
    ELSE IF lo = hi
         THEN (IF pts[lo + 1] # pts[lo + 2] THEN <<pts[lo + 2]>> ELSE <<>>)
    ELSE keep_between(pts, lo, (lo + hi) \div 2)
         \o keep_between(pts, (lo + hi) \div 2 + 1, hi)

\* the body of the loop for one stroke
points_to_keep(pts) ==
    IF pts = <<>> THEN Raise("IndexError")                 \* points[0]
    ELSE Ok(<<pts[1]>> \o keep_between(pts, 0, Len(pts) - 3)
            \o (IF pts[1] # pts[Len(pts)] THEN <<pts[Len(pts)]>> ELSE <<>>))

\* the loop over the strokes in key order: a stroke that raises ends the call
RECURSIVE remove_consecutive_duplicate_points(_)
remove_consecutive_duplicate_points(td) ==
    IF td = <<>> THEN Ok(<<>>)
    ELSE LET kept == points_to_keep(Head(td))
         IN  IF ~IsOk(kept) THEN kept
             ELSE LET rest == remove_consecutive_duplicate_points(Tail(td))
                  IN  IF ~IsOk(rest) THEN rest ELSE Ok(<<kept.val>> \o rest.val)

(***************************************************************************)
(* IEEE-754 binary64 arithmetic for "steps = 1/len(x_coors)" and for the   *)
(* length of np.arange(0, 1, steps), which numpy computes as               *)
(* ceil((stop - start) / step) in double precision.  A natural below 2^54  *)
(* is the pair <<hi, lo>> = hi * 2^27 + lo.                                *)
(***************************************************************************)
wide_gt(a, b) == a[1] > b[1] \/ (a[1] = b[1] /\ a[2] > b[2])
wide_inc(a) == IF a[2] + 1 = 2 ^ 27 THEN <<a[1] + 1, 0>> ELSE <<a[1], a[2] + 1>>

\* the least z with 2^z >= n, and the greatest p with 2^p <= n (n < 2^21)
ceil_log2(n) == CHOOSE z \in 0..21 : 2 ^ z >= n /\ (z = 0 \/ 2 ^ (z - 1) < n)
floor_log2(n) == CHOOSE p \in 0..21 : 2 ^ p <= n /\ n < 2 ^ (p + 1)

\* 2^(z+52) divided by n, z = ceil_log2(n), by long division in chunks of 9
\* bits: <<the 53-bit quotient, the remainder>>.  The quotient's first bit is
\* 1 because n <= 2^z < 2n.
reciprocal_division(n) ==
    LET r0 == 2 ^ ceil_log2(n) - n
        d1 == (r0 * 512) \div n   r1 == (r0 * 512) % n
        d2 == (r1 * 512) \div n   r2 == (r1 * 512) % n
        d3 == (r2 * 512) \div n   r3 == (r2 * 512) % n
        d4 == (r3 * 512) \div n   r4 == (r3 * 512) % n
        d5 == (r4 * 512) \div n   r5 == (r4 * 512) % n
        d6 == (r5 * 128) \div n   r6 == (r5 * 128) % n
        \* 2^52 + d1 2^43 + d2 2^34 + d3 2^25 + d4 2^16 + d5 2^7 + d6
        hi == 2 ^ 25 + d1 * 2 ^ 16 + d2 * 2 ^ 7 + d3 \div 4
        lo == (d3 % 4) * 2 ^ 25 + d4 * 2 ^ 16 + d5 * 2 ^ 7 + d6
    IN  <<<<hi, lo>>, r6>>

\* steps = 1/n: the quotient rounded to nearest, ties to even.
\* steps = mantissa * 2^-(ceil_log2(n) + 52); rounded_up tells whether the
\* rounding went up (steps > 1/n) and rem is the remainder that was dropped.
float_reciprocal(n) ==
    LET d == reciprocal_division(n)
        up == 2 * d[2] > n \/ (2 * d[2] = n /\ d[1][2] % 2 = 1)
    IN  [mantissa |-> IF up THEN wide_inc(d[1]) ELSE d[1],
         rounded_up |-> up,
         rem |-> d[2]]

\* len(np.arange(0, 1, 1/n)) in exact arithmetic: ceil(1 / (1/n)) = n
arange_len_exact(n) == n

\* len(np.arange(0, 1, steps)) = ceil(1.0 / steps) with steps = 1/n in
\* binary64, for 1 <= n < 2^21.  With m the mantissa of steps and
\* rem = 2^(z+52) - n*m, the exact quotient 1/steps is n + rem/m.
\*  - steps rounded up (or exact): the quotient is at most n and above n - 1,
\*    so its rounding is too, and the ceiling is n.
\*  - steps rounded down: the doubles next to n are spaced ulp = 2^(p-52)
\*    apart, p = floor_log2(n); the quotient rounds to a double above n, and
\*    the ceiling is n + 1, exactly when rem/m > ulp/2, that is
\*    rem * 2^(53-p) > m (a tie would round to n, whose mantissa is even).
arange_len(n) ==
    LET s == float_reciprocal(n)
        p == floor_log2(n)
    IN  IF /\ ~s.rounded_up
           /\ s.rem > 0
           /\ wide_gt(<<s.rem * 2 ^ (26 - p), 0>>, s.mantissa)
        THEN n + 1
        ELSE n

(***************************************************************************)
(* interpolate_spline_points and smooth_points.  The coordinates scipy     *)
(* computes are not modelled: a fitted stroke is [fitted |-> TRUE], its    *)
(* spline degree and the number num of curve points, point j being the     *)
(* curve at parameter j * steps (j = 0..num-1).                            *)
(***************************************************************************)
Unfitted(pts) == [fitted |-> FALSE, deg |-> 0, num |-> Len(pts), points |-> pts]
Fitted(deg, num) == [fitted |-> TRUE, deg |-> deg, num |-> num, points |-> <<>>]

\* splprep builds the curve parameter from the cumulative chord length and
\* FITPACK's parcur rejects a parameter that does not increase strictly
\* (ier = 10, raised as ValueError): two equal consecutive points.
splprep_rejects(pts) == \E k \in 1..(Len(pts) - 1) : pts[k] = pts[k + 1]

interpolate_spline_points(pts, deg) ==
    IF splprep_rejects(pts) THEN Raise("ValueError")
    ELSE Ok(Fitted(deg, arange_len(Len(pts))))

\* the body of the loop for one stroke; a fit always yields num >= 1 points,
\* so "new_points if len(new_points) != 0 else points" keeps the fitted ones
smooth_stroke(pts) ==
    IF Len(pts) = 2 THEN interpolate_spline_points(pts, 1)
    ELSE IF Len(pts) = 3 THEN interpolate_spline_points(pts, 2)
    ELSE IF Len(pts) > 3 THEN interpolate_spline_points(pts, 3)
    ELSE Ok(Unfitted(pts))

\* the loop over the strokes in key order: a stroke that raises ends the call
RECURSIVE smooth_points(_)
smooth_points(td) ==
    IF td = <<>> THEN Ok(<<>>)
    ELSE LET new == smooth_stroke(Head(td))
         IN  IF ~IsOk(new) THEN new
             ELSE LET rest == smooth_points(Tail(td))
                  IN  IF ~IsOk(rest) THEN rest ELSE Ok(<<new.val>> \o rest.val)

(***************************************************************************)
(* C9, stated on the text itself, by positions.  Token t of a text is the  *)
(* run of characters with t-1 commas before it; a field of a token is a    *)
(* maximal run without whitespace; an integer is an optional "-" and one   *)
(* or more digits.                                                         *)
(***************************************************************************)
KthSmallest(S, k) == CHOOSE e \in S : Cardinality({f \in S : f < e}) = k - 1

NumTokens(text) == 1 + Cardinality({p \in 1..Len(text) : text[p] = ","})

TokenText(text, t) ==
    LET at == {p \in 1..Len(text) :
                  /\ text[p] # ","
                  /\ Cardinality({q \in 1..p : text[q] = ","}) = t - 1}
    IN  [k \in 1..Cardinality(at) |-> text[KthSmallest(at, k)]]

FieldStarts(tok) ==
    {p \in 1..Len(tok) : ~IsSpace(tok[p]) /\ (p = 1 \/ IsSpace(tok[p - 1]))}

FieldText(tok, j) ==
    LET s == KthSmallest(FieldStarts(tok), j)
        e == CHOOSE e \in s..Len(tok) :
                 /\ \A r \in s..e : ~IsSpace(tok[r])
                 /\ (e = Len(tok) \/ IsSpace(tok[e + 1]))
    IN  [k \in 1..(e - s + 1) |-> tok[s + k - 1]]

IsIntegerText(f) ==
    \E sign \in 0..1 :
        /\ Len(f) > sign
        /\ \A k \in 1..sign : f[k] = "-"
        /\ \A k \in (sign + 1)..Len(f) : IsDigit(f[k])

\* the digits are all "1": a run of n of them is (10^n - 1) / 9
IntegerValue(f) ==
    LET n == Cardinality({k \in 1..Len(f) : IsDigit(f[k])})
        v == ((10 ^ n) - 1) \div 9
    IN  IF f[1] = "-" THEN 0 - v ELSE v

WellFormedToken(tok) ==
    /\ Cardinality(FieldStarts(tok)) >= 2
    /\ IsIntegerText(FieldText(tok, 1))
    /\ IsIntegerText(FieldText(tok, 2))

\* the points (x, -y) of the well-formed tokens of the text, in input order
WellFormedPoints(text) ==
    LET good == {t \in 1..NumTokens(text) : WellFormedToken(TokenText(text, t))}
    IN  [k \in 1..Cardinality(good) |->
            LET tok == TokenText(text, KthSmallest(good, k))
            IN  <<IntegerValue(FieldText(tok, 1)), 0 - IntegerValue(FieldText(tok, 2))>>]

\* C9: get_coordinates_from_trace returns exactly the points (x, -y) of the
\* tokens whose first two whitespace-separated fields are integers, in input
\* order; a malformed token is skipped and removes no well-formed point.
C9_ParsesEveryWellFormedToken ==
    stage = "points" => points = WellFormedPoints(trace)

\* C9 restricted to texts without a newline, where the code agrees with it.
C9_HoldsWithoutNewline ==
    (stage = "points" /\ \A p \in 1..Len(trace) : trace[p] # "\n")
        => points = WellFormedPoints(trace)

\* a malformed token before a well-formed one: the point is still returned
C9_SkippedTokenReached ==
    /\ stage = "points"
    /\ \A p \in 1..Len(trace) : trace[p] # "\n"
    /\ NumTokens(trace) >= 2
    /\ ~WellFormedToken(TokenText(trace, 1))
    /\ WellFormedToken(TokenText(trace, 2))
    /\ Len(points) = 1

(***************************************************************************)
(* The samples: trace_dicts of at most MaxStrokes strokes and MaxPoints    *)
(* points in all on the Grid (a stroke may be empty: a trace none of whose *)
(* tokens parsed), and single zigzag strokes of up to MaxLong points.      *)
(***************************************************************************)
RECURSIVE Dicts(_, _)
Dicts(k, budget) ==
    {<<>>} \cup
    (IF k = 0 THEN {}
     ELSE UNION {{<<s>> \o d : s \in [1..n -> Grid], d \in Dicts(k - 1, budget - n)}
                 : n \in 0..budget})

Zigzag(n) == [k \in 1..n |-> <<k - 1, (k - 1) % 2>>]

SmallSamples == Dicts(MaxStrokes, MaxPoints)
LongSamples == {<<Zigzag(n)>> : n \in (MaxPoints + 1)..MaxLong}

(***************************************************************************)
(* Specification of the cleaning stages, CROHME.py:394:                    *)
(*   trace_dict = smooth_points(remove_consecutive_duplicate_points(..))   *)
(***************************************************************************)
InitClean ==
    /\ trace_dict \in SmallSamples \cup LongSamples
    /\ stage = "parsed"
    /\ result = None
    /\ trace = None /\ points = None
    /\ features = None
    /\ symbol_files = None /\ i = None /\ df = None /\ exception = None

\* the inner call; trace_dict keeps its argument
Collapse ==
    /\ stage = "parsed"
    /\ result' = remove_consecutive_duplicate_points(trace_dict)
    /\ stage' = "collapsed"
    /\ UNCHANGED <<trace, points, trace_dict, features, symbol_files, i, df, exception>>

\* the outer call, reached when the inner one returned; trace_dict becomes
\* its argument
Smooth ==
    /\ stage = "collapsed"
    /\ IsOk(result)
    /\ trace_dict' = result.val
    /\ result' = smooth_points(result.val)
    /\ stage' = "smoothed"
    /\ UNCHANGED <<trace, points, features, symbol_files, i, df, exception>>

NextClean == Collapse \/ Smooth

SpecClean == InitClean /\ [][NextClean]_vars

(***************************************************************************)
(* C3, C4, C10                                                             *)
(***************************************************************************)
\* the points at positions 2..n-1 (1-based) that differ from the point before
MiddleKept(pts) ==
    LET at == {k \in 2..(Len(pts) - 1) : pts[k] # pts[k - 1]}
    IN  [j \in 1..Cardinality(at) |-> pts[KthSmallest(at, j)]]

\* what C3 says the collapse of a stroke of two or more points is
CollapseAsClaimed(pts) ==
    LET reduced == <<pts[1]>> \o MiddleKept(pts)
    IN  IF Len(reduced) = 1 /\ pts[Len(pts)] = pts[1] THEN reduced
        ELSE reduced \o <<pts[Len(pts)]>>

NoEmptyStroke(td) == \A k \in 1..Len(td) : td[k] # <<>>

\* C3: a stroke of two or more points collapses to its first point, the
\* points at 2..n-1 that differ from their predecessor, and its last point,
\* which is left out only when the reduced stroke is the first point alone
\* and the last point equals it; so the ends of the stroke are kept.
C3_CollapseKeepsLastPoint ==
    (stage = "collapsed" /\ NoEmptyStroke(trace_dict)) =>
        /\ IsOk(result)
        /\ \A k \in 1..Len(trace_dict) :
              Len(trace_dict[k]) >= 2 =>
                  /\ result.val[k] = CollapseAsClaimed(trace_dict[k])
                  /\ result.val[k][1] = trace_dict[k][1]
                  /\ result.val[k][Len(result.val[k])] = trace_dict[k][Len(trace_dict[k])]

\* C3 without its last sentence, as the code has it: the last point is left
\* out whenever it equals the first one.
CollapseAsCoded(pts) ==
    <<pts[1]>> \o MiddleKept(pts)
    \o (IF pts[Len(pts)] # pts[1] THEN <<pts[Len(pts)]>> ELSE <<>>)

C3_CollapseDropsLastEqualToFirst ==
    (stage = "collapsed" /\ NoEmptyStroke(trace_dict)) =>
        /\ IsOk(result)
        /\ \A k \in 1..Len(trace_dict) : result.val[k] = CollapseAsCoded(trace_dict[k])

DegenerateOnly(td) == \A k \in 1..Len(td) : Len(td[k]) <= 1

\* C4: a stroke of 0 or 1 points is returned unchanged, under its id, by
\* remove_consecutive_duplicate_points and by smooth_points; neither raises.
C4_DegenerateStrokesPassThrough ==
    /\ (stage = "collapsed" /\ DegenerateOnly(trace_dict)) =>
           (IsOk(result) /\ result.val = trace_dict)
    /\ (stage = "smoothed" /\ DegenerateOnly(trace_dict)) =>
           /\ IsOk(result)
           /\ Len(result.val) = Len(trace_dict)
           /\ \A k \in 1..Len(trace_dict) : result.val[k] = Unfitted(trace_dict[k])

\* C10: whenever smooth_points returns, every stroke has under its id exactly
\* as many points as it had before: a fit of n >= 2 points is resampled at
\* the n parameters 0, 1/n, ..., (n-1)/n.
C10_SmoothKeepsPointCount ==
    (stage = "smoothed" /\ IsOk(result)) =>
        /\ Len(result.val) = Len(trace_dict)
        /\ \A k \in 1..Len(trace_dict) : result.val[k].num = Len(trace_dict[k])

\* C10 in full: smooth_points returns for every stroke, with the degree the
\* point count selects.
C10_SmoothAlwaysReturns ==
    stage = "smoothed" =>
        /\ IsOk(result)
        /\ \A k \in 1..Len(trace_dict) :
              LET n == Len(trace_dict[k])
              IN  /\ result.val[k].num = n
                  /\ result.val[k].fitted = (n >= 2)
                  /\ result.val[k].deg =
                        (IF n < 2 THEN 0 ELSE IF n = 2 THEN 1 ELSE IF n = 3 THEN 2 ELSE 3)

\* every stroke handed on by the cleaning stages has at least one point
CleanedStrokesNonEmpty ==
    (stage = "smoothed" /\ IsOk(result)) =>
        \A k \in 1..Len(result.val) : result.val[k].num >= 1

(***************************************************************************)
(* The extractors.                                                         *)
(***************************************************************************)
RECURSIVE num_points_of(_)
num_points_of(td) ==
    IF td = <<>> THEN 0 ELSE Len(Head(td)) + num_points_of(Tail(td))

\* <<num_points, num_strokes>>
extract_num_points_and_strokes(td) == <<num_points_of(td), Len(td)>>

up == 1
down == 2
left == 3
right == 4

InList(c, list) == \E k \in 1..Len(list) : list[k] = c

\* the four tests of one iteration without their "not in" halves
directions_step_no_dedup(dirs, prev, cur) ==
    IF Len(dirs) < 4
    THEN LET d1 == IF cur[2] - prev[2] > 0 THEN Append(dirs, up) ELSE dirs
             d2 == IF cur[2] - prev[2] < 0 THEN Append(d1, down) ELSE d1
             d3 == IF cur[1] - prev[1] < 0 THEN Append(d2, left) ELSE d2
             d4 == IF cur[1] - prev[1] > 0 THEN Append(d3, right) ELSE d3
         IN  d4
    ELSE dirs

\* one iteration of the loop over i: cur = point i, prev = point i-1
directions_step(dirs, prev, cur) ==
    IF Len(dirs) < 4
    THEN LET d1 == IF ~InList(up, dirs) /\ cur[2] - prev[2] > 0
                   THEN Append(dirs, up) ELSE dirs
             d2 == IF ~InList(down, d1) /\ cur[2] - prev[2] < 0
                   THEN Append(d1, down) ELSE d1
             d3 == IF ~InList(left, d2) /\ cur[1] - prev[1] < 0
                   THEN Append(d2, left) ELSE d2
             d4 == IF ~InList(right, d3) /\ cur[1] - prev[1] > 0
                   THEN Append(d3, right) ELSE d3
         IN  d4
    ELSE dirs

\* directions_for_trace after the iterations 1..upto (Python indices)
RECURSIVE directions_upto(_, _)
directions_upto(pts, upto) ==
    IF upto < 1 THEN <<>>
    ELSE directions_step(directions_upto(pts, upto - 1), pts[upto], pts[upto + 1])

directions_for_trace(pts) == directions_upto(pts, Len(pts) - 1)

\* directions.extend(directions_for_trace) over the strokes in key order
RECURSIVE extract_directions(_)
extract_directions(td) ==
    IF td = <<>> THEN <<>>
    ELSE directions_for_trace(Head(td)) \o extract_directions(Tail(td))

\* the backward branch taken for the last index only
curvature_reads_last_only(idx, n) ==
    IF idx < 2 THEN <<idx, idx + 2>>
    ELSE IF idx > n - 2 THEN <<idx - 2, idx>>
    ELSE <<idx - 2, idx + 2>>

\* the two points whose difference iteration i (Python index) takes, as
\* Python indices <<from, to>>, for a stroke of n > 4 points
curvature_reads(idx, n) ==
    IF idx < 2 THEN <<idx, idx + 2>>
    ELSE IF idx > n - 3 THEN <<idx - 2, idx>>
    ELSE <<idx - 2, idx + 2>>

\* list[idx] of Python: an index in -n..-1 counts from the end, an index
\* outside -n..n-1 raises IndexError
item(list, idx) ==
    IF 0 <= idx /\ idx < Len(list) THEN Ok(list[idx + 1])
    ELSE IF 0 - Len(list) <= idx /\ idx < 0 THEN Ok(list[Len(list) + idx + 1])
    ELSE Raise("IndexError")

\* trace_curves after the iterations 1..upto: the <<delta_y, delta_x>> whose
\* arctan(delta_y / delta_x) is appended, nothing being appended for a stroke
\* of 4 points or fewer, nor when delta_x = 0; with them the indices
\* <<from, to>> the iterations subscripted x_coors and y_coors with
RECURSIVE trace_curves_upto(_, _)
trace_curves_upto(pts, upto) ==
    IF upto < 1 THEN Ok([trace_curves |-> <<>>, reads |-> <<>>])
    ELSE LET before == trace_curves_upto(pts, upto - 1)
             rd == curvature_reads(upto, Len(pts))
             to == item(pts, rd[2])
             from == item(pts, rd[1])
             delta_x == to.val[1] - from.val[1]
             delta_y == to.val[2] - from.val[2]
         IN  IF ~IsOk(before) THEN before
             ELSE IF Len(pts) <= 4 THEN before
             ELSE IF ~IsOk(to) THEN to
             ELSE IF ~IsOk(from) THEN from
             ELSE Ok([trace_curves |->
                         IF delta_x # 0
                         THEN Append(before.val.trace_curves, <<delta_y, delta_x>>)
                         ELSE before.val.trace_curves,
                      reads |-> Append(before.val.reads, rd)])

\* the curvature is mean(character_curvature), each entry 0 or the mean of a
\* stroke's arctangents: kept as the strokes' trace_curves.  np.mean([]) of
\* no stroke at all is nan (a RuntimeWarning, no exception).
extract_curvature(td) ==
    LET strokes == [k \in 1..Len(td) |-> trace_curves_upto(td[k], Len(td[k]) - 1)]
    IN  IF \E k \in 1..Len(td) : ~IsOk(strokes[k]) THEN Raise("IndexError")
        ELSE Ok([nan |-> td = <<>>,
                 trace_curves |-> [k \in 1..Len(td) |-> strokes[k].val.trace_curves],
                 reads |-> [k \in 1..Len(td) |-> strokes[k].val.reads]])

\* -np.inf, np.inf and the integers the bounding box runs through
Inf(sign) == [inf |-> sign, v |-> 0]
Fin(v) == [inf |-> 0, v |-> v]
less(a, b) ==
    IF a.inf # 0 \/ b.inf # 0 THEN a.inf < b.inf ELSE a.v < b.v

amax(xs) == CHOOSE m \in {xs[k] : k \in 1..Len(xs)} : \A k \in 1..Len(xs) : xs[k] <= m
amin(xs) == CHOOSE m \in {xs[k] : k \in 1..Len(xs)} : \A k \in 1..Len(xs) : xs[k] >= m
x_coors_of(pts) == [k \in 1..Len(pts) |-> pts[k][1]]
y_coors_of(pts) == [k \in 1..Len(pts) |-> pts[k][2]]

\* the loop over the strokes: [max_x, min_x, max_y, min_y], or the
\* ValueError np.amax raises on the empty list of an empty stroke
RECURSIVE bounding_box(_, _)
bounding_box(td, box) ==
    IF td = <<>> THEN Ok(box)
    ELSE IF Head(td) = <<>> THEN Raise("ValueError")
    ELSE LET xs == x_coors_of(Head(td))
             ys == y_coors_of(Head(td))
         IN  bounding_box(Tail(td),
                 [max_x |-> IF less(box.max_x, Fin(amax(xs))) THEN Fin(amax(xs)) ELSE box.max_x,
                  max_y |-> IF less(box.max_y, Fin(amax(ys))) THEN Fin(amax(ys)) ELSE box.max_y,
                  min_x |-> IF less(Fin(amin(xs)), box.min_x) THEN Fin(amin(xs)) ELSE box.min_x,
                  min_y |-> IF less(Fin(amin(ys)), box.min_y) THEN Fin(amin(ys)) ELSE box.min_y])

EmptyBox == [max_x |-> Inf(-1), min_x |-> Inf(1), max_y |-> Inf(-1), min_y |-> Inf(1)]

\* a width or height in hundredths, only a negative one replaced by 0.01
clamped_if_negative(hi, lo) ==
    IF hi.inf # 0 \/ lo.inf # 0 THEN 1
    ELSE IF hi.v - lo.v < 0 THEN 1
    ELSE 100 * (hi.v - lo.v)

\* "width = max - min; if width <= 0: width = 0.01", in hundredths
\* (-inf - inf = -inf <= 0 when there is no stroke)
clamped(hi, lo) ==
    IF hi.inf # 0 \/ lo.inf # 0 THEN 1
    ELSE IF hi.v - lo.v <= 0 THEN 1
    ELSE 100 * (hi.v - lo.v)

\* width / height as the pair <<width, height>> in hundredths; a height of 0
\* would make the quotient inf or nan
extract_aspect_ratio(td) ==
    LET box == bounding_box(td, EmptyBox)
    IN  IF ~IsOk(box) THEN box
        ELSE Ok(<<clamped(box.val.max_x, box.val.min_x),
                  clamped(box.val.max_y, box.val.min_y)>>)

\* "for trace in trace_dict" runs over the keys, the ints 0, 1, ...; the
\* first iteration hands the key 0 to separate_x_y_coors_from_points, whose
\* "for p in points" raises TypeError (an int is not iterable).  With no
\* stroke neither loop runs and the zero histograms are returned.
extract_frequencies(td) ==
    IF td = <<>> THEN Ok(<<<<0, 0, 0, 0, 0>>, <<0, 0, 0, 0, 0>>>>)
    ELSE Raise("TypeError")

(***************************************************************************)
(* Specification of the extractors, each applied to a StrokeSet.  The      *)
(* cleaning stages hand on no empty stroke (CleanedStrokesNonEmpty); the   *)
(* extractors are also run on StrokeSets that have one.                    *)
(***************************************************************************)
StrokeSets ==
    SmallSamples \cup {<<Zigzag(n)>> : n \in (MaxPoints + 1)..(MaxPoints + 3)}

InitExtract ==
    /\ trace_dict \in StrokeSets
    /\ stage = "smoothed"
    /\ result = None
    /\ trace = None /\ points = None
    /\ features = None
    /\ symbol_files = None /\ i = None /\ df = None /\ exception = None

Counts ==
    /\ stage = "smoothed"
    /\ result' = Ok(extract_num_points_and_strokes(trace_dict))
    /\ stage' = "num_points_and_strokes"
    /\ UNCHANGED <<trace, points, trace_dict, features, symbol_files, i, df, exception>>

Directions ==
    /\ stage = "smoothed"
    /\ result' = Ok(extract_directions(trace_dict))
    /\ stage' = "directions"
    /\ UNCHANGED <<trace, points, trace_dict, features, symbol_files, i, df, exception>>

Curvature ==
    /\ stage = "smoothed"
    /\ result' = extract_curvature(trace_dict)
    /\ stage' = "curvature"
    /\ UNCHANGED <<trace, points, trace_dict, features, symbol_files, i, df, exception>>

AspectRatio ==
    /\ stage = "smoothed"
    /\ result' = extract_aspect_ratio(trace_dict)
    /\ stage' = "aspect_ratio"
    /\ UNCHANGED <<trace, points, trace_dict, features, symbol_files, i, df, exception>>

Frequencies ==
    /\ stage = "smoothed"
    /\ result' = extract_frequencies(trace_dict)
    /\ stage' = "frequencies"
    /\ UNCHANGED <<trace, points, trace_dict, features, symbol_files, i, df, exception>>

NextExtract == Counts \/ Directions \/ Curvature \/ AspectRatio \/ Frequencies

SpecExtract == InitExtract /\ [][NextExtract]_vars

(***************************************************************************)
(* C2, C7, C8                                                              *)
(***************************************************************************)
RECURSIVE SumSeq(_)
SumSeq(q) == IF q = <<>> THEN 0 ELSE Head(q) + SumSeq(Tail(q))

PointSlots(td) == {<<k, j>> : k \in 1..Len(td), j \in 1..MaxLong} \cap
                  {kj \in (1..Len(td)) \X (1..MaxLong) : kj[2] <= Len(td[kj[1]])}

\* C2: extract_frequencies returns two histograms of five bins, and the bins
\* of each sum to the number of points of the StrokeSet, for a StrokeSet
\* every stroke of which has a point.
C2_HistogramsSumToPointCount ==
    (stage = "frequencies" /\ NoEmptyStroke(trace_dict)) =>
        /\ IsOk(result)
        /\ Len(result.val[1]) = 5 /\ Len(result.val[2]) = 5
        /\ SumSeq(result.val[1]) = Cardinality(PointSlots(trace_dict))
        /\ SumSeq(result.val[2]) = Cardinality(PointSlots(trace_dict))

AllX(td) == {td[kj[1]][kj[2]][1] : kj \in PointSlots(td)}
AllY(td) == {td[kj[1]][kj[2]][2] : kj \in PointSlots(td)}
SetMax(S) == CHOOSE m \in S : \A e \in S : e <= m
SetMin(S) == CHOOSE m \in S : \A e \in S : e >= m
\* a dimension of the bounding box in hundredths, 0.01 standing in for <= 0
Dimension(S) == IF SetMax(S) - SetMin(S) <= 0 THEN 1 ELSE 100 * (SetMax(S) - SetMin(S))

Shows(pts, j, c) ==
    \/ c = up /\ pts[j + 1][2] > pts[j][2]
    \/ c = down /\ pts[j + 1][2] < pts[j][2]
    \/ c = left /\ pts[j + 1][1] < pts[j][1]
    \/ c = right /\ pts[j + 1][1] > pts[j][1]

Observed(pts) == {c \in {up, down, left, right} : \E j \in 1..(Len(pts) - 1) : Shows(pts, j, c)}

FirstStep(pts, c) ==
    CHOOSE j \in 1..(Len(pts) - 1) :
        Shows(pts, j, c) /\ \A h \in 1..(j - 1) : ~Shows(pts, h, c)

\* the directions a stroke shows, each once, in the order they first show
\* (within a step: up, down, left, right)
StrokeDirections(pts) ==
    LET key(c) == 5 * FirstStep(pts, c) + c
    IN  [r \in 1..Cardinality(Observed(pts)) |->
            CHOOSE c \in Observed(pts) :
                Cardinality({d \in Observed(pts) : key(d) < key(c)}) = r - 1]

RECURSIVE Offset(_, _)
Offset(td, k) == IF k = 0 THEN 0 ELSE Offset(td, k - 1) + Cardinality(Observed(td[k]))

\* C8: the list of a stroke holds each of up, down, left, right at most once
\* (so at most 4 codes), and the sample's list is the strokes' lists one
\* after the other in the order of the stroke ids, repeats across strokes kept.
C8_DirectionsPerStrokeThenConcatenated ==
    stage = "directions" =>
        /\ Len(result.val) = Offset(trace_dict, Len(trace_dict))
        /\ \A k \in 1..Len(trace_dict) :
              LET seg == StrokeDirections(trace_dict[k])
              IN  /\ Len(seg) <= 4
                  /\ \A a, b \in 1..Len(seg) : a # b => seg[a] # seg[b]
                  /\ \A j \in 1..Len(seg) :
                        result.val[Offset(trace_dict, k - 1) + j] = seg[j]

\* two strokes that both go up: up appears once for each of them
C8_RepeatAcrossStrokesReached ==
    /\ stage = "directions"
    /\ Len(trace_dict) = 2
    /\ Observed(trace_dict[1]) = {up} /\ Observed(trace_dict[2]) = {up}
    /\ result.val = <<up, up>>

(***************************************************************************)
(* extract_features and build_training_data.  A sample file is the part of *)
(* the parsed markup the code reads: what the second <annotation> tag      *)
(* holds, and the texts of the <trace> tags in document order.             *)
(***************************************************************************)
Absent == "Absent"    \* the file has fewer than two <annotation> tags

\* the texts "1 1", "1 1,-1 1" and "a" of a <trace> tag
OnePointText == <<"1", " ", "1">>
TwoPointText == <<"1", " ", "1", ",", "-", "1", " ", "1">>
NoPointText == <<"a">>

TraceLists == {<<>>, <<OnePointText>>, <<TwoPointText>>,
               <<TwoPointText, OnePointText>>, <<NoPointText>>}

\* None: the second <annotation> tag has no child, unique_id stays None
Annotations == {"id_1", "id_9", None, Absent}

SampleFiles == [annotation : Annotations, traces : TraceLists]

RECURSIVE Batches(_)
Batches(n) ==
    IF n = 0 THEN {<<>>}
    ELSE Batches(n - 1) \cup
         {Append(b, f) : b \in {c \in Batches(n - 1) : Len(c) = n - 1}, f \in SampleFiles}

\* what iso_GT.txt maps: unique id -> written symbol
map_ids_to_symbols == [u \in {"id_1"} |-> "a"]

\* the points splev returns for a fitted stroke are not computed here: any
\* num points of the grid
Realise(stroke) ==
    IF stroke.fitted THEN [1..stroke.num -> Grid] ELSE {stroke.points}

RECURSIVE Realisations(_)
Realisations(sm) ==
    IF sm = <<>> THEN {<<>>}
    ELSE {<<pts>> \o rest : pts \in Realise(Head(sm)), rest \in Realisations(Tail(sm))}

\* the locals unique_id, num_points .. frequencies; None: not assigned
Locals(unique_id, counts, directions, curvature, aspect_ratio, frequencies) ==
    [unique_id |-> unique_id,
     num_points |-> IF counts = None THEN None ELSE counts[1],
     num_strokes |-> IF counts = None THEN None ELSE counts[2],
     directions |-> directions, curvature |-> curvature,
     aspect_ratio |-> aspect_ratio, frequencies |-> frequencies]

Exit(outcome, td, locals) == [result |-> outcome, trace_dict |-> td, features |-> locals]

\* lines 398-405 for the smoothed trace_dict td.  Line 402 evaluates the
\* name trace_groups, which neither the function nor the module binds:
\* NameError, before extract_frequencies is entered.
extract_features_of(unique_id, td) ==
    LET counts == extract_num_points_and_strokes(td)
        directions == extract_directions(td)
        curvature == extract_curvature(td)
        aspect_ratio == extract_aspect_ratio(td)
        frequencies == Raise("NameError")
    IN  IF ~IsOk(curvature)
        THEN Exit(curvature, td,
                  Locals(unique_id, counts, directions, None, None, None))
        ELSE IF ~IsOk(aspect_ratio)
        THEN Exit(aspect_ratio, td,
                  Locals(unique_id, counts, directions, curvature.val, None, None))
        ELSE IF ~IsOk(frequencies)
        THEN Exit(frequencies, td,
                  Locals(unique_id, counts, directions, curvature.val, aspect_ratio.val, None))
        ELSE Exit(Ok([UI |-> unique_id, NUM_POINTS |-> counts[1],
                      NUM_STROKES |-> counts[2], DIRECTIONS |-> directions,
                      CURVATURE |-> curvature.val, ASPECT_RATIO |-> aspect_ratio.val,
                      FREQUENCIES |-> frequencies.val,
                      SYMBOL_REPRESENTATION |-> None]),
                  td,
                  Locals(unique_id, counts, directions, curvature.val,
                         aspect_ratio.val, frequencies.val))

\* the ways one call can end: the value returned or the exception raised,
\* with trace_dict and the locals as the call leaves them
extract_features(file) ==
    IF file.annotation = Absent
    THEN {Exit(Raise("IndexError"), None, None)}
    ELSE
    LET unique_id == file.annotation
        parsed == [k \in 1..Len(file.traces) |-> get_coordinates_from_trace(file.traces[k])]
        unassigned == Locals(unique_id, None, None, None, None, None)
        collapsed == remove_consecutive_duplicate_points(parsed)
    IN  IF ~IsOk(collapsed) THEN {Exit(collapsed, parsed, unassigned)}
        ELSE
        LET smoothed == smooth_points(collapsed.val)
        IN  IF ~IsOk(smoothed) THEN {Exit(smoothed, parsed, unassigned)}
            ELSE {extract_features_of(unique_id, td) : td \in Realisations(smoothed.val)}

InitBatch ==
    /\ symbol_files \in Batches(MaxFiles)
    /\ i = 0
    /\ df = <<>>
    /\ stage = "loop"
    /\ exception = None
    /\ result = None /\ features = None /\ trace_dict = None
    /\ trace = None /\ points = None

\* one pass of the loop body: no try surrounds either call, so an exception
\* of extract_features or of the lookup leaves build_training_data
Iteration ==
    /\ stage = "loop"
    /\ i < Len(symbol_files)
    /\ \E out \in extract_features(symbol_files[i + 1]) :
          /\ result' = out.result
          /\ trace_dict' = out.trace_dict
          /\ features' = out.features
          /\ IF ~IsOk(out.result)
             THEN /\ stage' = "raised"
                  /\ exception' = out.result.err
                  /\ UNCHANGED <<i, df>>
             ELSE IF out.result.val.UI \notin DOMAIN map_ids_to_symbols
             THEN /\ stage' = "raised"
                  /\ exception' = "KeyError"
                  /\ UNCHANGED <<i, df>>
             ELSE /\ df' = Append(df, [out.result.val EXCEPT
                             !.SYMBOL_REPRESENTATION = map_ids_to_symbols[out.result.val.UI]])
                  /\ i' = i + 1
                  /\ UNCHANGED <<stage, exception>>
    /\ UNCHANGED <<trace, points, symbol_files>>

\* the loop is over: return df
Return ==
    /\ stage = "loop"
    /\ i = Len(symbol_files)
    /\ stage' = "returned"
    /\ UNCHANGED <<trace, points, trace_dict, result, features,
                   symbol_files, i, df, exception>>

NextBatch == Iteration \/ Return

SpecBatch == InitBatch /\ [][NextBatch]_vars

(***************************************************************************)
(* C1, C5, C6                                                              *)
(***************************************************************************)
\* the sample the last call of extract_features was for (0: none yet)
Handled == IF stage = "raised" THEN i + 1 ELSE i

HasIdentifier(file) == file.annotation \notin {Absent, None}
HasPoint(file) ==
    \E k \in 1..Len(file.traces) : get_coordinates_from_trace(file.traces[k]) # <<>>
EveryStrokeHasPoint(file) ==
    /\ file.traces # <<>>
    /\ \A k \in 1..Len(file.traces) : get_coordinates_from_trace(file.traces[k]) # <<>>

\* C1: for a sample with an identifier and a stroke with a point,
\* extract_features does not end in an error: it returns a record with the
\* identifier and the five feature families, all five extractors having run.
C1_ExtractFeaturesReturnsRecord ==
    (/\ stage \in {"loop", "raised", "returned"}
     /\ Handled > 0
     /\ HasIdentifier(symbol_files[Handled])
     /\ HasPoint(symbol_files[Handled])) =>
        /\ IsOk(result)
        /\ result.val.UI = symbol_files[Handled].annotation
        /\ features.num_points # None /\ features.directions # None
        /\ features.curvature # None /\ features.aspect_ratio # None
        /\ features.frequencies # None

FailsAtSampleLevel(file) ==
    \/ ~HasIdentifier(file)
    \/ file.annotation \notin DOMAIN map_ids_to_symbols
    \/ file.traces = <<>>

\* C5: a batch with one sample that fails at sample level (no identifier,
\* identifier the lookup does not know, no stroke) and other samples that
\* are in order: build_training_data does not end in an exception, and what
\* it returns holds the other samples, in their order.
C5_BatchOutlivesFailingSample ==
    (/\ stage \in {"raised", "returned"}
     /\ \E bad \in 1..Len(symbol_files) :
           /\ FailsAtSampleLevel(symbol_files[bad])
           /\ \A k \in (1..Len(symbol_files)) \ {bad} :
                 /\ ~FailsAtSampleLevel(symbol_files[k])
                 /\ EveryStrokeHasPoint(symbol_files[k])) =>
        /\ stage = "returned"
        /\ exception = None
        /\ \E bad \in 1..Len(symbol_files) :
              /\ FailsAtSampleLevel(symbol_files[bad])
              /\ Len(df) = Len(symbol_files) - 1
              /\ \A k \in 1..Len(df) :
                    df[k].UI = symbol_files[IF k < bad THEN k ELSE k + 1].annotation

\* C6: for a sample with an identifier and no stroke, extract_features ends
\* in the empty-stroke-set error, and no extractor has handed back a value
\* made from no strokes: curvature, aspect ratio and histograms unassigned.
C6_NoStrokesIsEmptyStrokeSetError ==
    (/\ stage \in {"loop", "raised", "returned"}
     /\ Handled > 0
     /\ HasIdentifier(symbol_files[Handled])
     /\ symbol_files[Handled].traces = <<>>) =>
        /\ ~IsOk(result)
        /\ result.err = "EmptyStrokeSetError"
        /\ features.curvature = None
        /\ features.aspect_ratio = None
        /\ features.frequencies = None

(***************************************************************************)
(* C11                                                                     *)
(***************************************************************************)
\* the indices the three branches subscript with at iteration idx of a
\* stroke of n points, as the claim lists them
ClaimedReads(idx, n) ==
    IF idx < 2 THEN {idx, idx + 2}
    ELSE IF idx > n - 3 THEN {idx - 2, idx}
    ELSE {idx - 2, idx + 2}

\* C11: extract_curvature subscripts the coordinates of a stroke of n points
\* only with indices of 0..n-1 (i and i+2 forward, i-2 and i backward, i-2
\* and i+2 centered, for i in 1..n-1), so it raises no IndexError and reads
\* no negative index; a stroke of 4 points or fewer is not subscripted at
\* all and has no slope (it contributes 0).
C11_CurvatureIndicesInRange ==
    stage = "curvature" =>
        /\ IsOk(result)
        /\ \A k \in 1..Len(trace_dict) :
              LET n == Len(trace_dict[k])
                  reads == result.val.reads[k]
              IN  IF n <= 4
                  THEN reads = <<>> /\ result.val.trace_curves[k] = <<>>
                  ELSE /\ Len(reads) = n - 1
                       /\ \A idx \in 1..(n - 1) :
                             /\ {reads[idx][1], reads[idx][2]} = ClaimedReads(idx, n)
                             /\ reads[idx][1] \in 0..(n - 1)
                             /\ reads[idx][2] \in 0..(n - 1)

\* a stroke long enough for the three branches: forward at 1, centered at 2,
\* backward at n-2 and n-1, the last one reading up to the last point
C11_ThreeBranchesReached ==
    /\ stage = "curvature"
    /\ Len(trace_dict) = 1
    /\ Len(trace_dict[1]) > 5
    /\ IsOk(result)
    /\ LET n == Len(trace_dict[1])
           reads == result.val.reads[1]
       IN  /\ reads[1] = <<1, 3>>
           /\ reads[2] = <<0, 4>>
           /\ reads[n - 2] = <<n - 4, n - 2>>
           /\ reads[n - 1] = <<n - 3, n - 1>>

====
